---------------------------- MODULE Spec2Model ----------------------------
(* TruthShield: the Home.py page script (session state, pagination, search, *)
(* detail view) and utils.call_fact_check_api behind st.cache_data.         *)
EXTENDS Integers, Sequences, FiniteSets, TLC

VARIABLES
    home_language,          \* st.session_state.home_language
    home_page_token,        \* st.session_state.home_page_token
    home_page_history,      \* st.session_state.home_page_history
    selected_claim_key,     \* st.session_state.selected_claim_key
    search_query,           \* st.session_state.search_query
    search_results,         \* st.session_state.search_results
    search_error,           \* st.session_state.search_error (Absent when the key is not set)
    cache,                  \* the st.cache_data store of call_fact_check_api
    now,                    \* wall clock, seconds
    api_key,                \* TRUE when st.secrets holds a non-empty GOOGLE_API_KEY
    world,                  \* what the provider serves
    ui,                     \* what the last script run rendered, and the globals its callbacks read
    run,                    \* the last operation (trigger, network requests, direct call) and
                            \* what the last script run called
    history_src             \* for each element of home_page_history, the gallery search it
                            \* came from: its language and the nextPageToken it returned

vars == <<home_language, home_page_token, home_page_history, selected_claim_key,
          search_query, search_results, search_error, cache, now, api_key, world,
          ui, run, history_src>>

-----------------------------------------------------------------------------
(* Values *)

None == "None"          \* Python None
Absent == "Absent"      \* a key that a dict or st.session_state does not hold
NoKey == -1             \* selected_claim_key = None

Langs == {"en", "hi"}
Tokens == {"T1", "T2"}                  \* non-empty page tokens the provider issues
TokenValues == Tokens \cup {"", Absent} \* what nextPageToken can be in a response
GalleryQuery == "India"
SearchInputs == {"", " ", "q"}          \* what the user can type in the search box

(* Bounds *)
MaxHist == 3            \* longest home_page_history explored
MaxTime == 3600         \* the clock stops here

(* Program constants *)
TTL == 3600             \* st.cache_data(ttl=3600)
GalleryPageSize == 10   \* page_size of the gallery search
SearchPageSize == 20    \* page_size of perform_search

\* the value of an expression, evaluated once: S is a one-element set
Only(S) == CHOOSE x \in S : TRUE

\* str.strip() on the inputs of SearchInputs
Strip(s) == IF s = " " THEN "" ELSE s

\* an optional list: search_results is None or a list
NoneList == [none |-> TRUE, items |-> <<>>]
SomeList(l) == [none |-> FALSE, items |-> l]

-----------------------------------------------------------------------------
(* The provider: pages of claims per (query, language, page token) *)

Key(query, language_code, page_size, page_token) ==
    <<query, language_code, page_size, page_token>>

\* the claims of a page: n claims, each named by the page it is on
ClaimsOf(key, n) == [i \in 1..n |-> <<key[1], key[2], key[4], i>>]

Worlds == {"A", "B"}

\* number of claims on a page, -1 when the response carries no 'claims' key
PageClaims(w, key) ==
    LET q == key[1]  l == key[2]  t == key[4] IN
    IF q = GalleryQuery THEN
        CASE w = "A" /\ l = "en" /\ t = None -> 2
          [] w = "A" /\ l = "en" /\ t = "T1" -> 0
          [] w = "A" /\ l = "en" /\ t = "T2" -> 1
          [] w = "A" /\ l = "hi" /\ t = None -> 1
          [] w = "A" /\ l = "hi" /\ t = "T2" -> 2
          [] w = "B" /\ l = "en" /\ t = None -> -1
          [] w = "B" /\ l = "hi" /\ t = None -> 0
          [] w = "B" /\ l = "hi" /\ t = "T1" -> 1
          [] OTHER -> 1
    ELSE
        CASE w = "A" /\ l = "en" -> 2
          [] w = "A" /\ l = "hi" -> -1
          [] w = "B" /\ l = "en" -> 0
          [] OTHER -> 1

PageNextToken(w, key) ==
    LET q == key[1]  l == key[2]  t == key[4] IN
    IF q = GalleryQuery THEN
        CASE w = "A" /\ l = "en" /\ t = None -> "T1"
          [] w = "A" /\ l = "en" /\ t = "T1" -> "T2"
          [] w = "A" /\ l = "hi" /\ t = None -> "T2"
          [] w = "A" /\ l = "hi" /\ t = "T2" -> ""
          [] w = "B" /\ l = "en" /\ t = None -> "T2"
          [] w = "B" /\ l = "hi" /\ t = None -> "T1"
          [] w = "B" /\ l = "hi" /\ t = "T1" -> "T1"
          [] OTHER -> Absent
    ELSE Absent

\* the JSON object of a 2xx response
Body(claims, hasClaims, token) ==
    [error |-> Absent, hasClaims |-> hasClaims, claims |-> claims, nextPageToken |-> token]

ProviderPage(w, key) ==
    LET n == PageClaims(w, key) IN
    Body(ClaimsOf(key, IF n < 0 THEN 0 ELSE n), n >= 0, PageNextToken(w, key))

-----------------------------------------------------------------------------
(* utils.call_fact_check_api *)

\* a dict with an 'error' key, as the function returns it
ErrorDict(msg) ==
    [error |-> msg, hasClaims |-> FALSE, claims |-> <<>>, nextPageToken |-> Absent]

\* {'claims': []}, returned for an empty response body
EmptyPage == Body(<<>>, TRUE, Absent)

\* The classes an exception is an instance of. requests.exceptions.JSONDecodeError
\* (raised by Response.json() since requests 2.27) derives from RequestException
\* and from json.JSONDecodeError; older releases raise json.JSONDecodeError itself.
Ancestors(exc) ==
    CASE exc = "HTTPError" -> {"HTTPError", "RequestException", "Exception"}
      [] exc = "ConnectionError" -> {"ConnectionError", "RequestException", "Exception"}
      [] exc = "RequestsJSONDecodeError" ->
             {"RequestsJSONDecodeError", "RequestException", "JSONDecodeError", "Exception"}
      [] exc = "JSONDecodeError" -> {"JSONDecodeError", "Exception"}
      [] OTHER -> {exc, "Exception"}

JsonErrorClasses == {"RequestsJSONDecodeError", "JSONDecodeError"}

\* What one network request can do.
\*   ok_json: 2xx, the body is the JSON object `body`
\*   ok_empty: 2xx, empty content
\*   ok_badjson: 2xx, non-empty content that is not JSON; Response.json() raises `exc`
\*   http_json / http_text: non-2xx with a JSON / non-JSON body
\*   conn: the connection fails;  fault: requests.get raises something else
Outcome(kind, body, exc) == [kind |-> kind, body |-> body, exc |-> exc]
FailureOutcomes ==
    {Outcome(k, EmptyPage, "JSONDecodeError") : k \in {"ok_empty", "http_json", "conn", "fault"}}
    \cup {Outcome(k, EmptyPage, e) : k \in {"ok_badjson", "http_text"}, e \in JsonErrorClasses}

\* the exception raised inside the try block (lines 43-49), "none" when it completes
RaisedInTry(o) ==
    CASE o.kind = "conn" -> "ConnectionError"               \* requests.get
      [] o.kind = "fault" -> "RuntimeError"                  \* requests.get
      [] o.kind \in {"http_json", "http_text"} -> "HTTPError" \* raise_for_status
      [] o.kind = "ok_badjson" -> o.exc                      \* response.json()
      [] OTHER -> "none"

\* the except clauses of the try statement, in source order
ExceptClausesNoCatchAll == <<"HTTPError", "RequestException", "JSONDecodeError">>
ExceptClauses == <<"HTTPError", "RequestException", "JSONDecodeError", "Exception">>

\* the first clause that matches the exception, "none" when no clause does
FirstOf(hits) ==
    IF hits = {} THEN "none"
    ELSE ExceptClauses[CHOOSE i \in hits : \A j \in hits : i <= j]
MatchingClause(exc) ==
    FirstOf({i \in 1..Len(ExceptClauses) : ExceptClauses[i] \in Ancestors(exc)})

\* the HTTPError handler (lines 51-58): e.response.json() may raise, and only
\* json.JSONDecodeError is caught there
HttpErrorHandler(o) ==
    IF o.kind = "http_text" /\ "JSONDecodeError" \notin Ancestors(o.exc)
    THEN [result |-> ErrorDict("HTTP Error"), raised |-> o.exc]
    ELSE [result |-> ErrorDict("HTTP Error"), raised |-> "none"]

\* the handler that the matching clause runs
Handle(o, exc, clause) ==
    CASE exc = "none" ->
            [result |-> IF o.kind = "ok_empty" THEN EmptyPage ELSE o.body, raised |-> "none"]
      [] clause = "HTTPError" -> HttpErrorHandler(o)
      [] clause = "RequestException" ->
            [result |-> ErrorDict("API Request Error"), raised |-> "none"]
      [] clause = "JSONDecodeError" ->
            [result |-> ErrorDict("API JSON Decode Error"), raised |-> "none"]
      [] clause = "Exception" ->
            [result |-> ErrorDict("An unexpected error occurred in API call"), raised |-> "none"]
      [] OTHER -> [result |-> ErrorDict("raised"), raised |-> exc]

\* lines 42-67: the request and the classification of its failure
RequestAndClassify(o) ==
    Only({Handle(o, exc, MatchingClause(exc)) : exc \in {RaisedInTry(o)}})

\* the function body (lines 28-67); requests counts the network requests issued
Fetch(hasKey, o) ==
    IF ~hasKey
    THEN [result |-> ErrorDict("API Key missing"), raised |-> "none", requests |-> 0]
    ELSE Only({[result |-> r.result, raised |-> r.raised, requests |-> 1] :
               r \in {RequestAndClassify(o)}})

\* st.cache_data(ttl=3600): an entry younger than the TTL is returned without
\* running the body; otherwise the body runs and its return value is stored
FreshNever(c, t, key) == FALSE
Fresh(c, t, key) == key \in DOMAIN c /\ t - c[key].at < TTL

StoredNowhere(c, t, key, f) ==
    [result |-> f.result, raised |-> f.raised, requests |-> f.requests, executed |-> TRUE,
     cache |-> c]
StoredOnlySuccess(c, t, key, f) ==
    [result |-> f.result, raised |-> f.raised, requests |-> f.requests, executed |-> TRUE,
     cache |-> IF f.raised = "none" /\ f.result.error = Absent
               THEN (key :> [value |-> f.result, at |-> t]) @@ c ELSE c]
Stored(c, t, key, f) ==
    [result |-> f.result, raised |-> f.raised, requests |-> f.requests, executed |-> TRUE,
     cache |-> IF f.raised = "none" THEN (key :> [value |-> f.result, at |-> t]) @@ c ELSE c]
call_fact_check_api(c, t, hasKey, key, o) ==
    IF Fresh(c, t, key)
    THEN [result |-> c[key].value, raised |-> "none", requests |-> 0,
          executed |-> FALSE, cache |-> c]
    ELSE Only({Stored(c, t, key, f) : f \in {Fetch(hasKey, o)}})

\* dict.get('claims', []) and dict.get('nextPageToken')
GetClaims(d) == IF d.hasClaims THEN d.claims ELSE <<>>
GetNextPageToken(d) == IF d.nextPageToken = Absent THEN None ELSE d.nextPageToken
\* Python truthiness of an optional string
Truthy(s) == s # None /\ s # ""

-----------------------------------------------------------------------------
(* Home.py: one script run.  `st` holds st.session_state, the cache and what  *)
(* the run has done so far; `inp` holds the widget values of the run.          *)

\* truthiness of a returned dict: {} is falsy
DictTruthy(d) == d.error # Absent \/ d.hasClaims \/ d.nextPageToken # Absent

\* the request's outcome: the provider's page for the key, unless the request fails
Respond(w, key, o) ==
    IF o.kind = "ok_json" THEN Outcome("ok_json", ProviderPage(w, key), o.exc) ELSE o
Serve == Outcome("ok_json", EmptyPage, "JSONDecodeError")

\* the first page comes from no search
NoSource == [lang |-> None, returned |-> Absent]

NothingRendered ==
    [view |-> "init", prev |-> FALSE, next |-> FALSE, clear |-> FALSE, cards |-> 0,
     back |-> FALSE, next_page_token |-> None, next_src |-> NoSource, shown |-> <<>>]

NoGalleryCall ==
    [made |-> FALSE, lang |-> None, token |-> None, token_lang |-> None, returned |-> Absent]

\* lines 67-73: the language selector
LanguageChangeKeepsPages(st, inp) ==
    [st EXCEPT !.home_language = inp.selected_lang_code, !.rerun = TRUE]
LanguageChange(st, inp) ==
    [st EXCEPT !.home_language = inp.selected_lang_code,
               !.home_page_token = None,
               !.home_page_history = <<None>>,
               !.history_src = <<NoSource>>,
               !.rerun = TRUE]
LanguageSelector(st, inp) ==
    IF inp.selected_lang_code # st.home_language THEN LanguageChange(st, inp) ELSE st

\* lines 117-121
clear_search_resets_pages(st) ==
    [st EXCEPT !.search_query = "", !.search_results = NoneList, !.search_error = Absent,
               !.home_page_token = None, !.home_page_history = <<None>>,
               !.history_src = <<NoSource>>]
clear_search(st) ==
    [st EXCEPT !.search_query = "", !.search_results = NoneList, !.search_error = Absent]

\* lines 133-138: the Clear Search button, rendered while search results are held
ClearSearchButton(st, inp) ==
    IF st.rerun THEN st
    ELSE IF st.search_results.none THEN st
    ELSE IF inp.clear_clicked
         THEN [clear_search(st) EXCEPT !.ui.clear = TRUE, !.rerun = TRUE]
         ELSE [st EXCEPT !.ui.clear = TRUE]

\* lines 150-156: the response is stored in st.session_state
StoreSearch(st, r) ==
    IF r.raised # "none" THEN [st EXCEPT !.exception = TRUE]
    ELSE IF DictTruthy(r.result) /\ r.result.error = Absent
         THEN [st EXCEPT !.search_results = SomeList(GetClaims(r.result))]
    ELSE IF DictTruthy(r.result)
         THEN [st EXCEPT !.search_error = r.result.error]
    ELSE [st EXCEPT !.search_error = "Unknown error during API call."]

\* a call of utils.call_fact_check_api is counted, and the cache it leaves kept
Called(st, r) ==
    [st EXCEPT !.cache = r.cache, !.apiCalls = @ + 1, !.requests = @ + r.requests]

\* lines 141-156
perform_search(st, o) ==
    Only({StoreSearch(Called(st, r), r) :
          r \in {call_fact_check_api(
                     st.cache, st.now, st.api_key,
                     Key(st.search_query, st.home_language, SearchPageSize, None),
                     Respond(st.world,
                             Key(st.search_query, st.home_language, SearchPageSize, None),
                             o))}})

\* lines 158-167: the search form's submission
SearchForm(st, inp) ==
    IF st.rerun THEN st
    ELSE IF inp.search_button /\ Strip(inp.search_input) # ""
    THEN perform_search([st EXCEPT !.search_query = Strip(inp.search_input)], inp.o1)
    ELSE IF inp.search_button /\ st.search_query # "" /\ Strip(inp.search_input) = ""
    THEN clear_search(st)
    ELSE st

\* lines 200-201: claims and next_page_token are read from the response
StoreGallery(st, r) ==
    IF r.raised # "none" THEN [st EXCEPT !.exception = TRUE]
    ELSE [st EXCEPT !.api_response_error = r.result.error,
                    !.claims = GetClaims(r.result),
                    !.claims_defined = TRUE,
                    !.next_page_token = GetNextPageToken(r.result),
                    !.gallery = [made |-> TRUE, lang |-> st.home_language,
                                 token |-> st.home_page_token,
                                 token_lang |-> st.history_src[Len(st.history_src)].lang,
                                 returned |-> r.result.nextPageToken]]

\* lines 189-201: the gallery search, skipped while search results are shown
ApiCall(st, inp) ==
    IF st.rerun \/ st.exception THEN st
    ELSE IF ~st.search_results.none THEN st
    ELSE Only({StoreGallery(Called(st, r), r) :
               r \in {call_fact_check_api(
                          st.cache, st.now, st.api_key,
                          Key(GalleryQuery, st.home_language, GalleryPageSize,
                              st.home_page_token),
                          Respond(st.world,
                                  Key(GalleryQuery, st.home_language, GalleryPageSize,
                                      st.home_page_token),
                                  inp.o2))}})

\* lines 271-290: the pagination buttons
PrevButton(st) == Len(st.home_page_history) > 1
NextButtonIfPresent(st) == st.next_page_token # None
NextButton(st) == Truthy(st.next_page_token)

\* lines 249-256: the gallery stops at a response that carries 'error'
GalleryStopsOnEmpty(st) == st.api_response_error # Absent \/ st.claims = <<>>
GalleryStops(st) == st.api_response_error # Absent

\* lines 203-290: what the run displays
Display(st) ==
    IF st.rerun \/ st.exception THEN st
    ELSE IF st.selected_claim_key # NoKey THEN
        \* the detail view indexes the global `claims`
        IF ~st.claims_defined THEN [st EXCEPT !.exception = TRUE]
        ELSE IF 0 <= st.selected_claim_key /\ st.selected_claim_key < Len(st.claims)
        THEN [st EXCEPT !.ui.view = "detail", !.ui.back = TRUE,
                        !.ui.shown = <<st.claims[st.selected_claim_key + 1]>>]
        ELSE [st EXCEPT !.selected_claim_key = NoKey, !.rerun = TRUE]
    ELSE IF ~st.search_results.none THEN
        IF st.search_error # Absent THEN [st EXCEPT !.ui.view = "search_error"]
        ELSE IF st.search_results.items = <<>> THEN [st EXCEPT !.ui.view = "search_empty"]
        ELSE [st EXCEPT !.ui.view = "search_results",
                        !.ui.cards = Len(st.search_results.items),
                        !.ui.shown = st.search_results.items]
    ELSE IF GalleryStops(st)
        THEN [st EXCEPT !.ui.view = "gallery_error"]      \* st.stop()
    ELSE [st EXCEPT !.ui.view = "gallery",
                    !.ui.cards = Len(st.claims),
                    !.ui.shown = st.claims,
                    !.ui.prev = PrevButton(st),
                    !.ui.next = NextButton(st),
                    !.ui.next_page_token = st.next_page_token,
                    !.ui.next_src = [lang |-> st.home_language,
                                     returned |-> st.gallery.returned]]

\* the globals and counters a script run starts with
StartRun(st) ==
    [st EXCEPT !.rerun = FALSE, !.exception = FALSE, !.apiCalls = 0,
               !.ui = NothingRendered, !.api_response_error = None,
               !.claims = <<>>, !.claims_defined = FALSE, !.next_page_token = None]

\* closes a run: an uncaught exception ends it where it is, and the script's
\* call count is recorded
EndRun(st) ==
    [st EXCEPT !.script_calls = Append(@, st.apiCalls),
               !.ui.view = IF st.exception THEN "exception" ELSE @]

\* the whole of Home.py, top to bottom
Script(st0, inp) ==
    Only({EndRun(Display(c)) :
          c \in {ApiCall(b, inp) :
          b \in {SearchForm(a, inp) :
          a \in {ClearSearchButton(l, inp) :
          l \in {LanguageSelector(StartRun(st0), inp)}}}}})

\* the widget values of a run that st.rerun() starts: nothing is clicked
RerunInputs(st, inp) ==
    [inp EXCEPT !.selected_lang_code = st.home_language, !.search_button = FALSE,
                !.clear_clicked = FALSE]

\* a script run and the runs its st.rerun() calls start (n bounds their number)
RECURSIVE RunToRender(_, _, _)
RunToRender(st, inp, n) ==
    Only({IF r.rerun /\ n > 0 THEN RunToRender(r, RerunInputs(r, inp), n - 1) ELSE r :
          r \in {Script(st, inp)}})

-----------------------------------------------------------------------------
(* Home.py: the button callbacks (lines 174-187, utils.py 207-209) *)

\* list.pop() then history[-1]; on a one-element list the index raises and the
\* token is left as it was
go_to_previous_page_keeps_token(st) ==
    [st EXCEPT !.home_page_history = SubSeq(@, 1, Len(@) - 1),
               !.history_src = SubSeq(@, 1, Len(@) - 1)]
go_to_previous_page(st) ==
    LET h == SubSeq(st.home_page_history, 1, Len(st.home_page_history) - 1) IN
    [st EXCEPT !.home_page_history = h,
               !.history_src = SubSeq(@, 1, Len(@) - 1),
               !.home_page_token = IF h = <<>> THEN @ ELSE h[Len(h)]]

\* reads the global next_page_token of the run that rendered the button
go_to_next_page_fabricates(st) ==
    [st EXCEPT !.home_page_history = Append(@, "T2"),
               !.history_src = Append(@, st.ui.next_src),
               !.home_page_token = "T2"]
go_to_next_page(st) ==
    [st EXCEPT !.home_page_history = Append(@, st.ui.next_page_token),
               !.history_src = Append(@, st.ui.next_src),
               !.home_page_token = st.ui.next_page_token]

view_details(st, claim_key) == [st EXCEPT !.selected_claim_key = claim_key]

go_back_to_gallery(st) == [st EXCEPT !.selected_claim_key = NoKey]

-----------------------------------------------------------------------------
(* The state machine *)

NoCall ==
    [made |-> FALSE, key |-> Key("", "", 0, None), has_key |-> FALSE, kind |-> "none",
     fresh |-> FALSE, result |-> EmptyPage, raised |-> "none", executed |-> FALSE]

\* no card has been clicked
NoClaim == <<>>

Init ==
    /\ home_language = "en"
    /\ home_page_token = None
    /\ home_page_history = <<None>>
    /\ selected_claim_key = NoKey
    /\ search_query = ""
    /\ search_results = NoneList
    /\ search_error = Absent
    /\ cache = <<>>
    /\ now = 0
    /\ api_key \in BOOLEAN
    /\ world \in Worlds
    /\ ui = NothingRendered
    /\ run = [trigger |-> "init", after_next |-> FALSE, next_from |-> None, requests |-> 0,
              script_calls |-> <<>>, gallery |-> NoGalleryCall, call |-> NoCall,
              picked |-> NoClaim]
    /\ history_src = <<NoSource>>

\* st.session_state and the environment, as the record a script run works on
Session ==
    [home_language |-> home_language, home_page_token |-> home_page_token,
     home_page_history |-> home_page_history, selected_claim_key |-> selected_claim_key,
     search_query |-> search_query, search_results |-> search_results,
     search_error |-> search_error, cache |-> cache, now |-> now, api_key |-> api_key,
     world |-> world, ui |-> ui, history_src |-> history_src,
     rerun |-> FALSE, exception |-> FALSE, apiCalls |-> 0, requests |-> 0,
     script_calls |-> <<>>, gallery |-> NoGalleryCall, api_response_error |-> None,
     claims |-> <<>>, claims_defined |-> FALSE, next_page_token |-> None]

\* the widget values of a run in which nothing was clicked
Idle ==
    [selected_lang_code |-> home_language, search_button |-> FALSE, search_input |-> "",
     clear_clicked |-> FALSE, o1 |-> Serve, o2 |-> Serve]

\* what a request of the Home page can meet: the provider's page or a failure
HomeOutcomes == {Serve, Outcome("conn", EmptyPage, "JSONDecodeError")}

\* the claim of the card whose View Details button was clicked last, while a
\* claim is selected
Picked(trigger, st, r) ==
    IF r.selected_claim_key = NoKey THEN NoClaim
    ELSE IF trigger = "details" THEN ui.shown[st.selected_claim_key + 1]
    ELSE run.picked

\* the state after the interaction: the callback has run, then the script
Render(trigger, st, inp) ==
    \E r \in {RunToRender(st, inp, 2)} :
    /\ home_language' = r.home_language
    /\ home_page_token' = r.home_page_token
    /\ home_page_history' = r.home_page_history
    /\ selected_claim_key' = r.selected_claim_key
    /\ search_query' = r.search_query
    /\ search_results' = r.search_results
    /\ search_error' = r.search_error
    /\ cache' = r.cache
    /\ ui' = r.ui
    /\ history_src' = r.history_src
    /\ run' = [trigger |-> trigger,
               after_next |-> (run.trigger = "next"),
               next_from |-> IF trigger = "next" THEN home_page_token ELSE None,
               requests |-> r.requests,
               script_calls |-> r.script_calls, gallery |-> r.gallery, call |-> NoCall,
               picked |-> Picked(trigger, st, r)]
    /\ UNCHANGED <<now, api_key, world>>

\* the page is loaded or re-run with no widget touched
Rerender ==
    \E o \in HomeOutcomes : Render("rerender", Session, [Idle EXCEPT !.o2 = o])

\* the language selector is set to another language
ChangeLanguage ==
    /\ ui.view # "init"
    /\ \E l \in Langs \ {home_language}, o \in HomeOutcomes :
          Render("language", Session, [Idle EXCEPT !.selected_lang_code = l, !.o2 = o])

\* the search form is submitted
SubmitSearch ==
    /\ ui.view # "init"
    /\ \E text \in SearchInputs, o1 \in HomeOutcomes, o2 \in HomeOutcomes :
          Render("search", Session,
                 [Idle EXCEPT !.search_button = TRUE, !.search_input = text,
                              !.o1 = o1, !.o2 = o2])

ClickClearSearch ==
    /\ ui.clear
    /\ \E o \in HomeOutcomes :
          Render("clear", Session, [Idle EXCEPT !.clear_clicked = TRUE, !.o2 = o])

ClickPrevious ==
    /\ ui.prev
    /\ \E o \in HomeOutcomes :
          Render("previous", go_to_previous_page(Session), [Idle EXCEPT !.o2 = o])

ClickNext ==
    /\ ui.next
    /\ Len(home_page_history) < MaxHist
    /\ \E o \in HomeOutcomes :
          Render("next", go_to_next_page(Session), [Idle EXCEPT !.o2 = o])

ClickViewDetails ==
    /\ ui.view \in {"gallery", "search_results"}
    /\ \E i \in 0..(ui.cards - 1), o \in HomeOutcomes :
          Render("details", view_details(Session, i), [Idle EXCEPT !.o2 = o])

ClickBack ==
    /\ ui.back
    /\ \E o \in HomeOutcomes :
          Render("back", go_back_to_gallery(Session), [Idle EXCEPT !.o2 = o])

\* time passes; entries older than the TTL are dead and dropped
Elapse(d) ==
    /\ now + d <= MaxTime
    /\ now' = now + d
    /\ cache' = [k \in {x \in DOMAIN cache : now + d - cache[x].at < TTL} |-> cache[k]]
    /\ run' = [run EXCEPT !.trigger = "tick", !.after_next = FALSE, !.next_from = None,
                           !.requests = 0, !.call = NoCall]
    /\ UNCHANGED <<home_language, home_page_token, home_page_history, selected_claim_key,
                   search_query, search_results, search_error, api_key, world, ui,
                   history_src>>

\* the page is left open for the length of the TTL
HourPasses == Elapse(TTL)

\* .streamlit/secrets.toml is edited: GOOGLE_API_KEY is set or removed
EditSecrets ==
    /\ api_key' = ~api_key
    /\ run' = [run EXCEPT !.trigger = "secrets", !.after_next = FALSE, !.next_from = None,
                           !.requests = 0, !.call = NoCall]
    /\ UNCHANGED <<home_language, home_page_token, home_page_history, selected_claim_key,
                   search_query, search_results, search_error, cache, now, world, ui,
                   history_src>>

Next ==
    \/ Rerender
    \/ ChangeLanguage
    \/ SubmitSearch
    \/ ClickClearSearch
    \/ ClickPrevious
    \/ ClickNext
    \/ ClickViewDetails
    \/ ClickBack
    \/ HourPasses

Spec == Init /\ [][Next]_vars

-----------------------------------------------------------------------------
(* call_fact_check_api called directly, as pages/Chat.py and pages/Search.py do *)

ApiKeys ==
    {Key(GalleryQuery, "en", GalleryPageSize, None),
     Key(GalleryQuery, "en", GalleryPageSize, "T1"),
     Key(GalleryQuery, "hi", GalleryPageSize, None)}

ApiOutcomes == {Serve} \cup FailureOutcomes

CallWith(keys, outcomes) ==
    \E key \in keys, o \in outcomes :
    \E r \in {call_fact_check_api(cache, now, api_key, key, Respond(world, key, o))} :
       /\ cache' = r.cache
       /\ run' = [run EXCEPT !.trigger = "call", !.after_next = FALSE, !.next_from = None,
                             !.requests = r.requests,
                             !.call = [made |-> TRUE, key |-> key, has_key |-> api_key,
                                       kind |-> o.kind, fresh |-> Fresh(cache, now, key),
                                       result |-> r.result, raised |-> r.raised,
                                       executed |-> r.executed]]
       /\ UNCHANGED <<home_language, home_page_token, home_page_history,
                      selected_claim_key, search_query, search_results, search_error,
                      now, api_key, world, ui, history_src>>

\* a call for one of several keys, the request succeeding or failing to connect
CallApi == CallWith(ApiKeys, HomeOutcomes)

\* a call whose request meets any of the outcomes
CallAnyOutcome == CallWith({Key(GalleryQuery, "en", GalleryPageSize, None)}, ApiOutcomes)

\* half the TTL passes between two calls
Tick == Elapse(TTL \div 2)

ApiNext ==
    \/ CallApi
    \/ Tick
    \/ EditSecrets

ApiSpec == Init /\ [][ApiNext]_vars

FetchNext ==
    \/ CallAnyOutcome
    \/ Tick
    \/ EditSecrets

FetchSpec == Init /\ [][FetchNext]_vars

-----------------------------------------------------------------------------
(* Properties of the Home page's pagination *)

\* C1: after any sequence of user actions home_page_history is non-empty, its
\* first element is None, and home_page_token equals its last element.
C1_HistoryShape ==
    /\ Len(home_page_history) >= 1
    /\ home_page_history[1] = None
    /\ home_page_token = home_page_history[Len(home_page_history)]

\* a previous-page click has popped a history of three pages down to two
C1_Witness ==
    /\ run.trigger = "previous"
    /\ Len(home_page_history) = 2
    /\ home_page_token # None

\* C2: home_page_token is None or a value that a gallery search returned as
\* nextPageToken and go_to_next_page appended; every appended element is the
\* token the search of its page returned, unaltered.
C2_CursorOpacity ==
    /\ Len(history_src) = Len(home_page_history)
    /\ \A i \in 2..Len(home_page_history) :
          home_page_history[i] = history_src[i].returned
    /\ \/ home_page_token = None
       \/ \E i \in 2..Len(home_page_history) :
             /\ home_page_history[i] = home_page_token
             /\ history_src[i].returned = home_page_token

\* a next-page click has made a returned token the cursor, and the gallery
\* search of the run was made with it
C2_Witness ==
    /\ run.trigger = "next"
    /\ home_page_token \in Tokens
    /\ run.gallery.made
    /\ run.gallery.token = home_page_token

\* C3: in gallery browsing mode (no search results held, no claim selected)
\* the previous-page button is offered exactly when len(home_page_history) > 1.
C3_PrevOfferedIffLonger ==
    (search_results.none /\ selected_claim_key = NoKey /\ ui.view # "init")
        => (ui.prev <=> Len(home_page_history) > 1)

\* C4: the next-page button is enabled only when the gallery search of the run
\* returned a non-absent, non-empty nextPageToken; a next-page click appends
\* exactly that token once; every element of the history after index 0 is a
\* non-empty token.
C4_NextOnlyWithToken ==
    /\ [](ui.next => /\ run.gallery.made
                     /\ run.gallery.returned \notin {Absent, None, ""}
                     /\ ui.next_page_token = run.gallery.returned)
    /\ [](\A i \in 2..Len(home_page_history) : home_page_history[i] \notin {None, ""})
    /\ [][run'.trigger = "next" =>
            /\ home_page_history' = Append(home_page_history, ui.next_page_token)
            /\ Len(home_page_history') = Len(home_page_history) + 1]_vars

\* two next-page clicks in a row have grown the history to three elements
C4_Witness ==
    /\ run.trigger = "next"
    /\ run.after_next
    /\ Len(home_page_history) = 3
    /\ ui.next

\* C5: a change of language resets home_page_history to [None] and
\* home_page_token to None before the gallery search of that interaction, and
\* no gallery search is made with a token obtained under another language.
C5_LanguageResetsPages ==
    /\ []((run.gallery.made /\ run.gallery.token # None)
             => run.gallery.token_lang = run.gallery.lang)
    /\ [][home_language' # home_language =>
            /\ home_page_history' = <<None>>
            /\ home_page_token' = None
            /\ (run'.gallery.made => /\ run'.gallery.token = None
                                     /\ run'.gallery.lang = home_language')]_vars

\* the language was changed on a later page, straight after a next-page click
C5_Witness ==
    /\ run.trigger = "language"
    /\ run.after_next
    /\ run.gallery.made
    /\ home_page_history = <<None>>

\* C6: a run that is not started by a next-page click, a previous-page click or
\* a language change leaves home_page_history and home_page_token unchanged.
C6_OnlyNavigationMoves ==
    [][run'.trigger \in {"rerender", "search", "clear", "details", "back"}
          => UNCHANGED <<home_page_history, home_page_token>>]_vars

\* the search was cleared while the gallery stood on a later page
C6_Witness ==
    /\ run.trigger = "clear"
    /\ Len(home_page_history) > 1
    /\ home_page_token # None

\* C7: a next-page click followed by a previous-page click restores
\* home_page_token to its value before the next-page click, and when the entry
\* of that page is younger than the TTL the gallery search for it is answered
\* from the cache with no network request.
C7_NextThenPrevious ==
    [][(run.trigger = "next" /\ run'.trigger = "previous") =>
          /\ home_page_token' = run.next_from
          /\ run'.gallery.made
          /\ run'.gallery.token = run.next_from
          /\ (\E k \in DOMAIN cache :
                 /\ k = Key(GalleryQuery, home_language, GalleryPageSize, run.next_from)
                 /\ now - cache[k].at < TTL)
                => run'.requests = 0]_vars

\* previous was clicked straight after next, and the page came from the cache
C7_Witness ==
    /\ run.trigger = "previous"
    /\ run.after_next
    /\ run.gallery.made
    /\ run.gallery.token = home_page_token
    /\ run.requests = 0
    /\ ui.view = "gallery"

-----------------------------------------------------------------------------
(* Properties of call_fact_check_api *)

FailureKinds == {"http_json", "http_text", "conn", "ok_badjson", "fault"}

\* C8: a call made while no GOOGLE_API_KEY is configured returns the error
\* "API Key missing" and issues no network request.
C8_NoKeyNoRequest ==
    (run.call.made /\ ~run.call.has_key)
        => (run.call.result.error = "API Key missing" /\ run.requests = 0)

\* C9: the call never raises; whatever the request does, a dict is returned,
\* and every failure is returned as a dict with an 'error' key.
C9_NeverRaises ==
    run.call.made =>
        /\ run.call.raised = "none"
        /\ (run.call.executed /\ (~run.call.has_key \/ run.call.kind \in FailureKinds))
              => run.call.result.error # Absent

\* requests.get raised something that is no RequestException, and the call
\* returned an error dict
C9_Witness ==
    /\ run.call.made
    /\ run.call.executed
    /\ run.call.has_key
    /\ run.call.kind = "fault"
    /\ run.call.raised = "none"
    /\ run.call.result.error # Absent

\* C10: a 2xx response whose non-empty body is not JSON is returned as
\* 'API JSON Decode Error', never as 'API Request Error'.
C10_DecodeErrorClass ==
    (run.call.made /\ run.call.executed /\ run.call.has_key
        /\ run.call.kind = "ok_badjson")
        => run.call.result.error = "API JSON Decode Error"

-----------------------------------------------------------------------------
(* Properties of the cache around call_fact_check_api *)

\* the page a claim was served for
PageOf(claim) == <<claim[1], claim[2], claim[3]>>

\* C11: a call whose argument tuple has an entry younger than the TTL does not
\* execute the body and issues no request; a call without such an entry
\* executes it once; a call touches no entry but that of its own tuple, and
\* every entry holds the page of its own language and page token.
C11_CacheIdempotence ==
    /\ []((run.call.made /\ run.call.executed /\ run.call.raised = "none")
            => /\ run.call.key \in DOMAIN cache
               /\ cache[run.call.key] = [value |-> run.call.result, at |-> now])
    /\ [](\A k \in DOMAIN cache :
             \A i \in 1..Len(cache[k].value.claims) :
                 PageOf(cache[k].value.claims[i]) = <<k[1], k[2], k[4]>>)
    /\ [][run'.trigger = "call" =>
            /\ (\E k \in DOMAIN cache : k = run'.call.key /\ now - cache[k].at < TTL)
                  => /\ ~run'.call.executed
                     /\ run'.requests = 0
                     /\ run'.call.result = cache[run'.call.key].value
                     /\ cache' = cache
            /\ ~(\E k \in DOMAIN cache : k = run'.call.key /\ now - cache[k].at < TTL)
                  => /\ run'.call.executed
                     /\ run'.requests = (IF api_key THEN 1 ELSE 0)
            /\ \A k \in DOMAIN cache \ {run'.call.key} :
                  k \in DOMAIN cache' /\ cache'[k] = cache[k]
            /\ DOMAIN cache' \subseteq DOMAIN cache \cup {run'.call.key}]_vars

\* a repeated call was answered from its entry while the entries of a page
\* in the other language and of another page token were held too
C11_Witness ==
    /\ run.call.made
    /\ ~run.call.executed
    /\ run.requests = 0
    /\ run.call.result.error = Absent
    /\ Len(run.call.result.claims) > 0
    /\ Cardinality(DOMAIN cache) = 3

\* C12: an error dict returned by the body is stored like a page, and a
\* repeated call with the same tuple within the TTL returns the same error
\* without a network request.
C12_FailuresCached ==
    /\ []((run.call.made /\ run.call.executed /\ run.call.raised = "none"
             /\ run.call.result.error # Absent)
            => /\ run.call.key \in DOMAIN cache
               /\ cache[run.call.key].value = run.call.result)
    /\ [][(/\ run'.trigger = "call"
           /\ \E k \in DOMAIN cache :
                 /\ k = run'.call.key
                 /\ now - cache[k].at < TTL
                 /\ cache[k].value.error # Absent)
            => /\ run'.call.result = cache[run'.call.key].value
               /\ run'.requests = 0]_vars

\* a call was answered with the stored transport error although the key was
\* configured and the request would have succeeded
C12_Witness ==
    /\ run.call.made
    /\ ~run.call.executed
    /\ run.call.has_key
    /\ run.call.kind = "ok_json"
    /\ run.call.result.error = "API Request Error"
    /\ run.requests = 0

-----------------------------------------------------------------------------
(* Properties of a Home run as a whole *)

\* the tuple of the gallery search the last run made
GalleryKey == Key(GalleryQuery, run.gallery.lang, GalleryPageSize, run.gallery.token)

\* C13: a gallery response without error whose claims are empty or absent and
\* whose nextPageToken is present is rendered as a gallery page: the run does
\* not stop, Next Page is enabled, and Previous Page is enabled when the
\* history holds more than one element.
C13_EmptyPageWithToken ==
    (/\ run.gallery.made
     /\ GalleryKey \in DOMAIN cache
     /\ cache[GalleryKey].value.error = Absent
     /\ cache[GalleryKey].value.claims = <<>>
     /\ cache[GalleryKey].value.nextPageToken \notin {Absent, ""}
     /\ selected_claim_key = NoKey)
        => /\ ui.view = "gallery"
           /\ ui.next
           /\ ui.next_page_token = cache[GalleryKey].value.nextPageToken
           /\ (Len(home_page_history) > 1 => ui.prev)

\* a second page came back with no claims and a token, and both buttons are on
C13_Witness ==
    /\ run.gallery.made
    /\ GalleryKey \in DOMAIN cache
    /\ cache[GalleryKey].value.claims = <<>>
    /\ ui.view = "gallery"
    /\ ui.cards = 0
    /\ ui.next
    /\ ui.prev
    /\ Len(home_page_history) = 2

-----------------------------------------------------------------------------
(* utils.scrape_images_from_url and utils.get_thumbnail_for_review *)

\* the most tags a page of the model holds, and the largest max_images asked for
MaxTags == 3
MaxImages == 3

\* A page is the sequence of its candidate tags in document order: <meta
\* property="og:image">, <meta name="twitter:image">, <link rel="image_src"> and
\* <img>.  `value` is the content / href / src attribute, Absent when missing.
Tag(kind, value) == [kind |-> kind, value |-> value]
MetaKinds == {"og", "tw", "link"}
Urls == {"a", "b"}
PageTags ==
    {Tag(k, v) : k \in MetaKinds, v \in {""} \cup Urls}
    \cup {Tag("img", v) : v \in {Absent, ""} \cup Urls}
Pages == UNION {[1..n -> PageTags] : n \in 0..MaxTags}

\* what the fetch of the page can do: a 2xx response with the page's markup, a
\* 2xx response whose markup html.parser rejects (BeautifulSoup raises
\* ParserRejectedMarkup), a non-2xx status, a connection failure, a timeout,
\* and requests.get raising an exception that is no RequestException
PageOutcomes == {"ok", "rejected", "http", "conn", "timeout", "fault"}

IsKind(t, kind) == t.kind = kind
HasSrc(t) == t.kind = "img" /\ t.value # Absent

\* soup.find(...): the first tag of the kind, whatever its attribute holds
NoTag == Tag("none", Absent)
FirstTag(hits) == IF hits = <<>> THEN NoTag ELSE Head(hits)
Find(page, kind) == FirstTag(SelectSeq(page, LAMBDA t : IsKind(t, kind)))

\* `if og and og.get('content'): images.append(og['content'])`
AppendIfValue(images, tag) ==
    IF tag.value \notin {Absent, ""} THEN Append(images, tag.value) ELSE images

InList(x, l) == \E i \in 1..Len(l) : l[i] = x
AppendNew(images, src) == IF InList(src, images) THEN images ELSE Append(images, src)

\* lines 99-104: the loop over soup.find_all('img', src=True)
RECURSIVE ImgLoop(_, _, _)
ImgLoop(imgs, images, max_images) ==
    IF imgs = <<>> THEN images
    ELSE IF Len(AppendNew(images, Head(imgs).value)) >= max_images
         THEN AppendNew(images, Head(imgs).value)
         ELSE ImgLoop(Tail(imgs), AppendNew(images, Head(imgs).value), max_images)

\* images[:max_images], for max_images >= 0
Slice(images, n) == SubSeq(images, 1, IF n < Len(images) THEN n ELSE Len(images))

\* lines 80-106: the candidates collected from the parsed page
Extract(page, max_images) ==
    Slice(ImgLoop(SelectSeq(page, HasSrc),
                  AppendIfValue(AppendIfValue(AppendIfValue(<<>>, Find(page, "og")),
                                              Find(page, "tw")),
                                Find(page, "link")),
                  max_images),
          max_images)

\* lines 74-106; fetches counts the calls of requests.get
scrape_images_from_url(page, max_images, o) ==
    CASE o \in {"http", "conn", "timeout"} ->
            [images |-> <<>>, raised |-> "none", fetches |-> 1]
      [] o = "fault" ->
            [images |-> <<>>, raised |-> "LocationParseError", fetches |-> 1]
      [] o = "rejected" ->
            [images |-> <<>>, raised |-> "ParserRejectedMarkup", fetches |-> 1]
      [] OTHER ->
            [images |-> Extract(page, max_images), raised |-> "none", fetches |-> 1]

\* lines 109-115
ThumbnailOf(r) ==
    [thumbnail |-> IF r.raised = "none" /\ r.images # <<>> THEN r.images[1] ELSE None,
     raised |-> r.raised, fetches |-> r.fetches]
get_thumbnail_for_review(review_url, page, o) ==
    IF review_url \in {None, ""}
    THEN [thumbnail |-> None, raised |-> "none", fetches |-> 0]
    ELSE ThumbnailOf(scrape_images_from_url(page, 1, o))

ReviewUrls == {None, "", "http://review"}

NoThumbCall ==
    [op |-> "none", review_url |-> None, max_images |-> 0, o |-> "ok", images |-> <<>>,
     thumbnail |-> None, raised |-> "none", fetches |-> 0]

\* the page behind the review URL is any page of the bound
ThumbInit ==
    /\ home_language = "en"
    /\ home_page_token = None
    /\ home_page_history = <<None>>
    /\ selected_claim_key = NoKey
    /\ search_query = ""
    /\ search_results = NoneList
    /\ search_error = Absent
    /\ cache = <<>>
    /\ now = 0
    /\ api_key = TRUE
    /\ world = "A"
    /\ ui = NothingRendered
    /\ history_src = <<NoSource>>
    /\ \E page \in Pages : run = [trigger |-> "init", page |-> page, thumb |-> NoThumbCall]

ThumbFrame ==
    UNCHANGED <<home_language, home_page_token, home_page_history, selected_claim_key,
                search_query, search_results, search_error, cache, now, api_key, world,
                ui, history_src>>

ScrapeImages ==
    /\ \E max_images \in 0..MaxImages, o \in PageOutcomes :
       \E r \in {scrape_images_from_url(run.page, max_images, o)} :
          run' = [run EXCEPT !.trigger = "scrape",
                             !.thumb = [op |-> "scrape", review_url |-> "http://review",
                                        max_images |-> max_images, o |-> o,
                                        images |-> r.images, thumbnail |-> None,
                                        raised |-> r.raised, fetches |-> r.fetches]]
    /\ ThumbFrame

GetThumbnail ==
    /\ \E review_url \in ReviewUrls, o \in PageOutcomes :
       \E r \in {get_thumbnail_for_review(review_url, run.page, o)} :
          run' = [run EXCEPT !.trigger = "thumbnail",
                             !.thumb = [op |-> "thumbnail", review_url |-> review_url,
                                        max_images |-> 1, o |-> o,
                                        images |-> <<>>, thumbnail |-> r.thumbnail,
                                        raised |-> r.raised, fetches |-> r.fetches]]
    /\ ThumbFrame

ThumbNext ==
    \/ ScrapeImages
    \/ GetThumbnail

ThumbSpec == ThumbInit /\ [][ThumbNext]_vars

-----------------------------------------------------------------------------
(* Properties of the thumbnail functions *)

\* The ranking as stated: the candidate of a meta kind is a tag of that kind
\* with a non-empty value; after the three meta kinds come the src attributes
\* of the <img> tags in document order, without repetition.
HasValue(t) == t.value \notin {Absent, ""}
Candidate(page, kind) ==
    FirstTag(SelectSeq(page, LAMBDA t : IsKind(t, kind) /\ HasValue(t)))
RECURSIVE Dedup(_, _)
Dedup(tags, acc) ==
    IF tags = <<>> THEN acc
    ELSE Dedup(Tail(tags),
               IF InList(Head(tags).value, acc) THEN acc ELSE Append(acc, Head(tags).value))
ValuesOf(tags) == [i \in 1..Len(tags) |-> tags[i].value]
Ranked(page) ==
    Dedup(SelectSeq(page, HasSrc),
          ValuesOf(SelectSeq(<<Candidate(page, "og"), Candidate(page, "tw"),
                               Candidate(page, "link")>>, HasValue)))

\* C14: with the page fetched, get_thumbnail_for_review returns the candidate of
\* highest rank that the page holds (og:image, then twitter:image, then
\* image_src, then the first <img> src), never a lower-ranked one while a
\* higher-ranked one with a non-empty value exists, and scrape_images_from_url
\* returns at most max_images candidates in that order.
C14_FallbackOrder ==
    (run.trigger \in {"scrape", "thumbnail"} /\ run.thumb.o = "ok")
      => /\ (run.thumb.op = "thumbnail" /\ run.thumb.review_url \notin {None, ""})
               => run.thumb.thumbnail =
                     (IF Ranked(run.page) = <<>> THEN None ELSE Ranked(run.page)[1])
         /\ run.thumb.op = "scrape"
               => /\ Len(run.thumb.images) <= run.thumb.max_images
                  /\ Len(run.thumb.images) <= Len(Ranked(run.page))
                  /\ run.thumb.images = SubSeq(Ranked(run.page), 1, Len(run.thumb.images))
                  /\ (Len(run.thumb.images) < run.thumb.max_images
                        => Len(run.thumb.images) = Len(Ranked(run.page)))

\* C15: get_thumbnail_for_review never raises; with a None or empty review URL
\* it returns None without a fetch; otherwise it fetches the page exactly once
\* and returns None when the fetch fails (connection failure, timeout, non-2xx).
C15_ThumbnailNeverRaises ==
    run.trigger = "thumbnail" =>
        /\ run.thumb.raised = "none"
        /\ run.thumb.review_url \in {None, ""}
              => (run.thumb.thumbnail = None /\ run.thumb.fetches = 0)
        /\ run.thumb.review_url \notin {None, ""}
              => /\ run.thumb.fetches = 1
                 /\ (run.thumb.o \in {"conn", "timeout", "http"}
                       => run.thumb.thumbnail = None)

-----------------------------------------------------------------------------
(* The calls of one Home run *)

\* C16: every script run of Home.py started by a user interaction calls
\* call_fact_check_api at most once, also when the call of a search submission
\* returns an error.
C16_OneCallPerRun ==
    \A i \in 1..Len(run.script_calls) : run.script_calls[i] <= 1

-----------------------------------------------------------------------------
(* call_fact_check_api while its request is in flight (utils.py line 43) *)

\* requests.get(API_ENDPOINT, params=params) is called without a timeout: the
\* call blocks until the provider responds.  A provider that stays silent
\* leaves the call inside requests.get.
ProviderBehaviours == {"responds", "silent"}

NotCalling ==
    [phase |-> "idle", key |-> Key("", "", 0, None), o |-> Serve, provider |-> "responds",
     result |-> EmptyPage, raised |-> "none"]

BlockInit ==
    /\ home_language = "en"
    /\ home_page_token = None
    /\ home_page_history = <<None>>
    /\ selected_claim_key = NoKey
    /\ search_query = ""
    /\ search_results = NoneList
    /\ search_error = Absent
    /\ cache = <<>>
    /\ now = 0
    /\ api_key \in BOOLEAN
    /\ world \in Worlds
    /\ ui = NothingRendered
    /\ history_src = <<NoSource>>
    /\ run = [trigger |-> "init", req |-> NotCalling]

BlockFrame ==
    UNCHANGED <<home_language, home_page_token, home_page_history, selected_claim_key,
                search_query, search_results, search_error, cache, now, api_key, world,
                ui, history_src>>

\* lines 28-43: the key is checked, then requests.get is entered
EnterCall ==
    /\ run.req.phase = "idle"
    /\ \E key \in ApiKeys, o \in ApiOutcomes, p \in ProviderBehaviours :
       \E f \in {Fetch(api_key, Respond(world, key, o))} :
          run' = [trigger |-> "enter",
                  req |-> IF api_key
                          THEN [phase |-> "in_get", key |-> key, o |-> o, provider |-> p,
                                result |-> EmptyPage, raised |-> "none"]
                          ELSE [phase |-> "returned", key |-> key, o |-> o, provider |-> p,
                                result |-> f.result, raised |-> f.raised]]
    /\ BlockFrame

\* lines 43-67: the provider's answer (or the failure of the connection) arrives
\* and the call returns
RequestCompletes ==
    /\ run.req.phase = "in_get"
    /\ run.req.provider = "responds"
    /\ \E f \in {Fetch(api_key, Respond(world, run.req.key, run.req.o))} :
          run' = [trigger |-> "complete",
                  req |-> [run.req EXCEPT !.phase = "returned", !.result = f.result,
                                          !.raised = f.raised]]
    /\ BlockFrame

\* the caller goes on and may call again
CallerContinues ==
    /\ run.req.phase = "returned"
    /\ run' = [trigger |-> "continue", req |-> NotCalling]
    /\ BlockFrame

BlockNext ==
    \/ EnterCall
    \/ RequestCompletes
    \/ CallerContinues

\* the interpreter keeps running whatever step is enabled
BlockSpec == BlockInit /\ [][BlockNext]_vars /\ WF_vars(BlockNext)

\* C17: a call that has entered its network request eventually returns, also
\* when the provider never responds (by a timeout, as a transport error).
C17_SearchCallReturns ==
    (run.req.phase = "in_get") ~> (run.req.phase = "returned")

-----------------------------------------------------------------------------
(* pages/Chat.py: get_llm_response, the Gemini branch (lines 101-150) *)

\* the most user/assistant exchanges the chat history of the model holds
MaxTurns == 3

Texts == {"x", "y"}

\* A message's content is the sequence of the texts it is made of, each marked
\* with the role of the message it was written in, so that a merge
\* (`parts[0] += "\n" + content`) keeps what it merged.
Piece(role, text) == [role |-> role, text |-> text]
Msg(role, content) == [role |-> role, content |-> content]

\* st.session_state.chat_messages[:-1]: user and assistant messages in turn
Exchanges(n) ==
    {[i \in 1..(2 * n) |->
         IF i % 2 = 1 THEN Msg("user", <<Piece("user", f[i])>>)
                      ELSE Msg("assistant", <<Piece("assistant", f[i])>>)] :
     f \in [1..(2 * n) -> Texts]}
ChatHistories == UNION {Exchanges(n) : n \in 0..MaxTurns}

\* lines 102-109: system prompt, previous turns, current user query
AssembleMessages(chat_history, user_query) ==
    <<Msg("system", <<Piece("system", "prompt")>>)>>
    \o chat_history
    \o <<Msg("user", <<Piece("user", user_query)>>)>>

\* `'model' if msg["role"] == 'user' else 'user'`
RoleAfter(role) == IF role = "user" THEN "model" ELSE "user"

GeminiEntry(msg) == [role |-> msg.role, parts |-> msg.content]

\* lines 131-144: the body of the loop for one message
GeminiStep(acc, msg) ==
    IF msg.role = "system" THEN acc
    ELSE IF msg.role = acc.current_role
         THEN IF acc.gemini_history # <<>>
              THEN [acc EXCEPT !.gemini_history[Len(acc.gemini_history)].parts =
                                   @ \o msg.content]
              ELSE [gemini_history |-> <<GeminiEntry(msg)>>,
                    current_role |-> RoleAfter(msg.role)]
    ELSE [gemini_history |-> Append(acc.gemini_history, GeminiEntry(msg)),
          current_role |-> RoleAfter(msg.role)]

\* lines 128-144
RECURSIVE GeminiLoop(_, _)
GeminiLoop(messages, acc) ==
    IF messages = <<>> THEN acc
    ELSE GeminiLoop(Tail(messages), GeminiStep(acc, Head(messages)))

BuildGeminiHistory(chat_history, user_query) ==
    GeminiLoop(AssembleMessages(chat_history, user_query),
               [gemini_history |-> <<>>, current_role |-> "user"]).gemini_history

ChatInit ==
    /\ home_language = "en"
    /\ home_page_token = None
    /\ home_page_history = <<None>>
    /\ selected_claim_key = NoKey
    /\ search_query = ""
    /\ search_results = NoneList
    /\ search_error = Absent
    /\ cache = <<>>
    /\ now = 0
    /\ api_key = TRUE
    /\ world = "A"
    /\ ui = NothingRendered
    /\ history_src = <<NoSource>>
    /\ \E h \in ChatHistories, q \in Texts :
          run = [trigger |-> "init", chat_history |-> h, user_query |-> q,
                 gemini_history |-> <<>>]

\* get_llm_response is called with the history and the query
GetLlmResponse ==
    /\ run.trigger = "init"
    /\ run' = [run EXCEPT !.trigger = "gemini",
                          !.gemini_history =
                              BuildGeminiHistory(run.chat_history, run.user_query)]
    /\ UNCHANGED <<home_language, home_page_token, home_page_history, selected_claim_key,
                   search_query, search_results, search_error, cache, now, api_key, world,
                   ui, history_src>>

ChatSpec == ChatInit /\ [][GetLlmResponse]_vars

\* C18: the gemini_history built from alternating user/assistant turns and the
\* current query starts with 'user', alternates strictly, and holds every
\* message's content in an entry of that message's own role.
C18_GeminiAlternation ==
    run.trigger = "gemini" =>
        /\ Len(run.gemini_history) = Len(run.chat_history) + 1
        /\ run.gemini_history[1].role = "user"
        /\ \A i \in 1..(Len(run.gemini_history) - 1) :
              run.gemini_history[i].role # run.gemini_history[i + 1].role
        /\ \A i \in 1..Len(run.gemini_history) :
              \A j \in 1..Len(run.gemini_history[i].parts) :
                  run.gemini_history[i].parts[j].role = run.gemini_history[i].role

-----------------------------------------------------------------------------
(* Properties of Home.py's search results and detail view *)

\* the tuple of the search that a submission of the form makes
SearchKey == Key(search_query, home_language, SearchPageSize, None)

\* C19: after a search submission the view shows the outcome of that
\* submission: its claims if it succeeded, its error message if it failed; an
\* earlier error never stands in for later results and an error is never
\* dropped.
C19_ViewShowsLastSearch ==
    (/\ run.trigger = "search"
     /\ search_query # ""
     /\ SearchKey \in DOMAIN cache
     /\ selected_claim_key = NoKey)
        => /\ cache[SearchKey].value.error = Absent
                => /\ ui.view \in {"search_results", "search_empty"}
                   /\ search_results = SomeList(GetClaims(cache[SearchKey].value))
                   /\ ui.shown = GetClaims(cache[SearchKey].value)
           /\ cache[SearchKey].value.error # Absent
                => /\ ui.view = "search_error"
                   /\ search_error = cache[SearchKey].value.error

\* C20: while a claim is selected the detail view is rendered from a defined
\* claims list, and the claim it shows is the claim of the card whose View
\* Details button the user clicked.
C20_DetailShowsSelected ==
    selected_claim_key # NoKey
        => /\ ui.view = "detail"
           /\ ui.shown = <<run.picked>>

-----------------------------------------------------------------------------
(* The credential and the cache *)

\* C21: a call made while a GOOGLE_API_KEY is configured never returns the
\* error "API Key missing", whatever calls were made before it, calls with
\* the same arguments made without a key within the TTL included.
C21_KeyConfiguredNeverMissing ==
    (run.call.made /\ run.call.has_key)
        => run.call.result.error # "API Key missing"

=============================================================================
